---------------------------- MODULE Spec2Model ----------------------------
(***************************************************************************)
(* A model of changeling.py ("theScroll"): an append-only, forkable        *)
(* change-log version space.  A document is a tree of ChangeEvent records  *)
(* kept in a dict keyed by changeId; a version is rebuilt by walking the   *)
(* baseId links back to the root and replaying the edits forward.          *)
(*                                                                         *)
(* Python strings are modelled as sequences of one-character strings, so   *)
(* that splitting, slicing, quoting, escaping and searching are computed   *)
(* the way the code computes them.  A Python value that may be a string,   *)
(* None or a raised exception is a record [t |-> tag, v |-> string].       *)
(***************************************************************************)
EXTENDS Integers, Sequences, FiniteSets, TLC

VARIABLES
    store,      \* ChangeLing's own dict: changeId -> ChangeEvent
    tips,       \* ChangeLing.tips: the keys of the incrementally kept dict
    halted,     \* TRUE once the process has ended (sys.exit or uncaught exception)
    doc,        \* the document value a chain of apply() calls is working on
    call,       \* the most recent call and what it returned
    meta,       \* ChangeLing.meta: field name -> list of values
    nChanges    \* ChangeLing.nChanges

vars == <<store, tips, halted, doc, call, meta, nChanges>>

\* The attributes only loadFromPlain and storeMeta write.
loaderVars == <<meta, nChanges>>

-----------------------------------------------------------------------------
(* Bounds of the model *)

MaxDocLen == 3      \* longest document drawn as an input of apply()
MaxOffset == 4      \* largest character offset written in a chars: target

-----------------------------------------------------------------------------
(* Python values *)

Str(s)      == [t |-> "str", v |-> s]
None        == [t |-> "None", v |-> <<>>]
Raise(exc)  == [t |-> exc, v |-> <<>>]
IsStr(x)    == x.t = "str"
IsNone(x)   == x.t = "None"
IsRaise(x)  == x.t \notin {"str", "None"}

Min(a, b) == IF a < b THEN a ELSE b
Max(a, b) == IF a > b THEN a ELSE b

\* s[i:j] of Python: negative indexes count from the end, both are clamped.
Slice(s, i, j) ==
    LET n  == Len(s)
        lo == IF i < 0 THEN Max(n + i, 0) ELSE Min(i, n)
        hi == IF j < 0 THEN Max(n + j, 0) ELSE Min(j, n)
    IN  IF lo >= hi THEN <<>> ELSE SubSeq(s, lo + 1, hi)

\* s[i:] of Python
SliceFrom(s, i) == Slice(s, i, Len(s))

\* Position (1-based) of the first occurrence of character c in s, 0 if none.
IndexOf(s, c) ==
    IF \E i \in 1..Len(s) : s[i] = c
    THEN CHOOSE i \in 1..Len(s) : s[i] = c /\ \A k \in 1..(i - 1) : s[k] # c
    ELSE 0

\* s.split(sep=":", maxsplit=1): a list of one or two strings.
SplitColon(s) ==
    LET p == IndexOf(s, ":")
    IN  IF p = 0 THEN <<s>>
        ELSE <<SubSeq(s, 1, p - 1), SubSeq(s, p + 1, Len(s))>>

Digits == <<"0", "1", "2", "3", "4", "5", "6", "7", "8", "9">>
IsDigit(c) == \E d \in 1..10 : Digits[d] = c
DigitVal(c) == (CHOOSE d \in 1..10 : Digits[d] = c) - 1

RECURSIVE DecimalValue(_)
DecimalValue(s) ==
    IF s = <<>> THEN 0
    ELSE 10 * DecimalValue(SubSeq(s, 1, Len(s) - 1)) + DigitVal(s[Len(s)])

\* int(s) of Python for the texts the model writes: an optional sign and
\* decimal digits; anything else raises ValueError.
IntParses(s) ==
    LET body == IF s # <<>> /\ s[1] \in {"-", "+"} THEN Tail(s) ELSE s
    IN  body # <<>> /\ \A i \in 1..Len(body) : IsDigit(body[i])
IntOf(s) ==
    IF s[1] = "-" THEN 0 - DecimalValue(Tail(s))
    ELSE IF s[1] = "+" THEN DecimalValue(Tail(s))
    ELSE DecimalValue(s)

-----------------------------------------------------------------------------
(* unquoteString and unescapeString *)

\* The quote pairs of the code over the model's alphabet; the typographic
\* double quotes U+201C / U+201D stand for the asymmetric pairs.
quotePairs == << <<"'", "'">>, <<"\"", "\"">>, <<"LDQ", "RDQ">> >>

unquoteString(s) ==
    IF s = <<>> THEN <<>>
    ELSE IF \E k \in 1..Len(quotePairs) :
                s[1] = quotePairs[k][1] /\ s[Len(s)] = quotePairs[k][2]
         THEN Slice(s, 1, -1)
         ELSE s

\* Characters shlex.quote() leaves alone: [a-zA-Z0-9@%+=:,./-] and "_".
SafeChars == {"a", "b", "c", "f", "x", "0", "1", "2", "3", "4", "5", "6", "7",
              "8", "9", ":", "=", ".", "-", "+", "_"}

\* The body of a single-quoted Python literal, escapes expanded, over the
\* model's alphabet: \\ and \" give the character, \a and \b give the
\* control characters BEL and BS, a backslash before another letter stays.
\* A backslash before ' (which shlex.quote has turned into '"'"') or at the
\* end of the text leaves the literal unterminated: a SyntaxError.
EscapeOf(c) ==
    IF c \in {"\\", "\""} THEN <<c>>
    ELSE IF c = "a" THEN <<"BEL">>
    ELSE IF c = "b" THEN <<"BS">>
    ELSE <<"\\", c>>

RECURSIVE ExpandEscapes(_)
ExpandEscapes(s) ==
    IF s = <<>> THEN Str(<<>>)
    ELSE IF s[1] # "\\"
         THEN LET r == ExpandEscapes(Tail(s))
              IN  IF IsStr(r) THEN Str(<<s[1]>> \o r.v) ELSE r
    ELSE IF Len(s) = 1 \/ s[2] = "'" THEN Raise("SyntaxError")
    ELSE LET r == ExpandEscapes(SubSeq(s, 3, Len(s)))
         IN  IF IsStr(r) THEN Str(EscapeOf(s[2]) \o r.v) ELSE r

\* ast.literal_eval(shlex.quote(s)).  shlex.quote returns '' for the empty
\* text, the text itself when every character is safe, and otherwise the text
\* in single quotes (each ' written as '"'"', which evaluates to itself).
\* literal_eval of an unquoted word raises ValueError (SyntaxError for some
\* punctuation; both leave apply the same way); of an unquoted number it
\* returns an int (t = "int"), unless the number has a leading zero.
LeadingZero(s) ==
    LET body == IF s[1] \in {"-", "+"} THEN Tail(s) ELSE s
    IN  Len(body) > 1 /\ body[1] = "0" /\ DecimalValue(body) # 0

unescapeString(s) ==
    IF s = <<>> THEN Str(<<>>)
    ELSE IF \A i \in 1..Len(s) : s[i] \in SafeChars
         THEN IF ~IntParses(s) THEN Raise("ValueError")
              ELSE IF LeadingZero(s) THEN Raise("SyntaxError")
              ELSE [t |-> "int", v |-> s]
         ELSE ExpandEscapes(s)

-----------------------------------------------------------------------------
(* Regular expressions, as far as the model's patterns go *)

\* A pattern is a sequence of literal characters and "." (any character);
\* a "(" that is never closed does not compile (re.error).
RegexCompiles(p) == \A i \in 1..Len(p) : p[i] \notin {"(", ")"}

MatchesAt(p, d, i) ==
    /\ i + Len(p) <= Len(d)
    /\ \A k \in 1..Len(p) : p[k] = "." \/ p[k] = d[i + k]

\* A variant that finds the rightmost match.
SearchStart_rightmost(p, d) ==
    IF \E i \in 0..Len(d) : MatchesAt(p, d, i)
    THEN CHOOSE i \in 0..Len(d) :
            MatchesAt(p, d, i) /\ \A k \in (i + 1)..Len(d) : ~MatchesAt(p, d, k)
    ELSE -1

\* re.search(p, d): the start (0-based) of the leftmost match, -1 if none.
SearchStart(p, d) ==
    IF \E i \in 0..Len(d) : MatchesAt(p, d, i)
    THEN CHOOSE i \in 0..Len(d) :
            MatchesAt(p, d, i) /\ \A k \in 0..(i - 1) : ~MatchesAt(p, d, k)
    ELSE -1

IsWordChar(c) == c \in {"a", "b", "c", "e", "f", "n", "v", "x", "_"} \/ IsDigit(c)
IsSpace(c)    == c = " "

\* The number of characters at the start of s that satisfy the test.
RECURSIVE SpanSpaces(_)
SpanSpaces(s) ==
    IF s # <<>> /\ IsSpace(s[1]) THEN 1 + SpanSpaces(Tail(s)) ELSE 0
RECURSIVE SpanName(_)
SpanName(s) ==
    IF s # <<>> /\ (IsWordChar(s[1]) \/ s[1] \in {"-", ":", "."})
    THEN 1 + SpanName(Tail(s)) ELSE 0

SkipSpaces(s) == SliceFrom(s, SpanSpaces(s))
IsQuote(c) == c \in {"'", "\""}
NoAttr == [ok |-> FALSE, name |-> <<>>, val |-> <<>>]

\* re.match(r"\s*(\w[-:.\w]*)\s*=\s*('[^']*'|\"[^\"]*\")", rest): the name
\* and the quoted value, or ok = FALSE.  The name is matched greedily; no
\* shorter name can match instead, because "=" is not a name character.
\* The value runs from the opening quote to the next quote of its kind.
AttrValue(name, r) ==
    IF r = <<>> \/ ~IsQuote(r[1]) \/ IndexOf(Tail(r), r[1]) = 0 THEN NoAttr
    ELSE [ok |-> TRUE, name |-> name, val |-> SubSeq(r, 1, IndexOf(Tail(r), r[1]) + 1)]
AttrEquals(name, r) ==
    IF r = <<>> \/ r[1] # "=" THEN NoAttr ELSE AttrValue(name, SkipSpaces(Tail(r)))
AttrName(r) ==
    IF r = <<>> \/ ~IsWordChar(r[1]) THEN NoAttr
    ELSE AttrEquals(SubSeq(r, 1, SpanName(r)), SkipSpaces(SliceFrom(r, SpanName(r))))
AttrSyntax(rest) == AttrName(SkipSpaces(rest))

\* re.search(r"<\w*[^>]+\s NAME\s*=\s*(['\"]VAL['\"])", d), the name and
\* the value taken literally.  AttrTail: does  NAME\s*=\s*['"]VAL['"]  match
\* d after its first w characters?  It gives the end of the match, or -1.
AttrQuoted(d, r, val) ==
    IF /\ Len(r) >= Len(val) + 2
       /\ IsQuote(r[1])
       /\ SubSeq(r, 2, Len(val) + 1) = val
       /\ IsQuote(r[Len(val) + 2])
    THEN Len(d) - Len(r) + Len(val) + 2
    ELSE -1
AttrAssign(d, r, val) ==
    IF r # <<>> /\ r[1] = "=" THEN AttrQuoted(d, SkipSpaces(Tail(r)), val) ELSE -1
AttrTail(d, w, name, val) ==
    IF Slice(d, w, w + Len(name)) = name
    THEN AttrAssign(d, SkipSpaces(SliceFrom(d, w + Len(name))), val)
    ELSE -1

\* A match that starts at "<" (after p characters) and whose white-space
\* character is the w-th of d: \w*[^>]+ is then the characters between
\* them, at least one and none of them ">".
AttrStartOK(d, p, w, name, val) ==
    /\ d[p + 1] = "<"
    /\ w >= p + 3 /\ w <= Len(d) /\ IsSpace(d[w])
    /\ \A k \in (p + 2)..(w - 1) : d[k] # ">"
    /\ AttrTail(d, w, name, val) >= 0

MinOf(S) == CHOOSE x \in S : \A y \in S : x <= y
MaxOf(S) == CHOOSE x \in S : \A y \in S : x >= y

\* [^>]+ is greedy: of the white-space characters that work, the last.
AttrEndAmong(d, ws, name, val) ==
    IF ws = {} THEN -1 ELSE AttrTail(d, MaxOf(ws), name, val)
AttrMatchAt(d, p, name, val) ==
    AttrEndAmong(d, {w \in 1..Len(d) : AttrStartOK(d, p, w, name, val)}, name, val)

\* The leftmost start wins.
AttrFirst(d, hits, name, val) ==
    IF hits = {} THEN [ok |-> FALSE, fr |-> 0, to |-> 0]
    ELSE [ok |-> TRUE, fr |-> MinOf(hits), to |-> AttrMatchAt(d, MinOf(hits), name, val)]
AttrSearch(d, name, val) ==
    AttrFirst(d, {p \in 0..(Len(d) - 1) : AttrMatchAt(d, p, name, val) >= 0}, name, val)

-----------------------------------------------------------------------------
(* ChangeEvent: getTargetBounds, getSource, apply *)

S_END   == <<"E", "N", "D">>
S_chars == <<"c", "h", "a", "r", "s">>
S_match == <<"m", "a", "t", "c", "h">>
S_attr  == <<"a", "t", "t", "r">>
S_xptr  == <<"x", "p", "t", "r">>
S_text  == <<"t", "e", "x", "t">>
S_copy  == <<"c", "o", "p", "y">>

Bounds(f, t) == [t |-> "ok", fr |-> f, to |-> t]
BoundsRaise(exc) == [t |-> exc, fr |-> 0, to |-> 0]

\* int() ignores white space around the number.
RECURSIVE StripSpaces(_)
StripSpaces(s) ==
    IF s # <<>> /\ IsSpace(s[1]) THEN StripSpaces(Tail(s))
    ELSE IF s # <<>> /\ IsSpace(s[Len(s)]) THEN StripSpaces(SubSeq(s, 1, Len(s) - 1))
    ELSE s

\* A variant of the chars branch without the test of toChar against len(doc).
CharsBounds_noUpper(d, rest) ==
    LET parts == SplitColon(rest)
    IN  IF Len(parts) # 2 THEN BoundsRaise("ValueError")
        ELSE IF ~IntParses(StripSpaces(parts[1])) THEN BoundsRaise("ValueError")
        ELSE IF ~IntParses(StripSpaces(parts[2])) THEN BoundsRaise("ValueError")
        ELSE LET frChar == IntOf(StripSpaces(parts[1]))
                 toChar == IntOf(StripSpaces(parts[2]))
             IN  IF frChar < 0 \/ frChar > toChar THEN BoundsRaise("KeyError")
                 ELSE IF IsNone(d) THEN BoundsRaise("TypeError")
                 ELSE Bounds(frChar, toChar)

\* The chars branch: rest.split(":", 1) must give two texts, both must be
\* integers (ValueError otherwise); the range test reads len(doc) last, so
\* with doc None it raises KeyError for a bad from and TypeError otherwise.
CharsBounds(d, rest) ==
    LET parts == SplitColon(rest)
    IN  IF Len(parts) # 2 THEN BoundsRaise("ValueError")
        ELSE IF ~IntParses(StripSpaces(parts[1])) THEN BoundsRaise("ValueError")
        ELSE IF ~IntParses(StripSpaces(parts[2])) THEN BoundsRaise("ValueError")
        ELSE LET frChar == IntOf(StripSpaces(parts[1]))
                 toChar == IntOf(StripSpaces(parts[2]))
             IN  IF frChar < 0 \/ frChar > toChar THEN BoundsRaise("KeyError")
                 ELSE IF IsNone(d) THEN BoundsRaise("TypeError")
                 ELSE IF toChar > Len(d.v) THEN BoundsRaise("KeyError")
                 ELSE Bounds(frChar, toChar)

\* A variant that compiles the text as written, quotes included.
MatchBounds_quoted(d, rest) ==
    IF ~RegexCompiles(rest) THEN BoundsRaise("re.error")
    ELSE IF IsNone(d) THEN BoundsRaise("TypeError")
    ELSE IF SearchStart(rest, d.v) < 0 THEN BoundsRaise("KeyError")
    ELSE Bounds(SearchStart(rest, d.v), SearchStart(rest, d.v) + Len(rest))

MatchBounds(d, rest0) ==
    LET rest == unquoteString(rest0)
    IN  IF ~RegexCompiles(rest) THEN BoundsRaise("re.error")
        ELSE IF IsNone(d) THEN BoundsRaise("TypeError")
        ELSE IF SearchStart(rest, d.v) < 0 THEN BoundsRaise("KeyError")
        ELSE Bounds(SearchStart(rest, d.v), SearchStart(rest, d.v) + Len(rest))

AttrFound(hit) ==
    IF ~hit.ok THEN BoundsRaise("KeyError") ELSE Bounds(hit.fr, hit.to)
AttrResolve(d, mat) ==
    IF ~mat.ok THEN BoundsRaise("KeyError")
    ELSE IF IsNone(d) THEN BoundsRaise("TypeError")
    ELSE AttrFound(AttrSearch(d.v, mat.name, unquoteString(mat.val)))
AttrBounds(d, rest) == AttrResolve(d, AttrSyntax(rest))

getTargetBounds(d, tgt) ==
    LET parts == SplitColon(tgt)
    IN  IF Len(parts) # 2 THEN BoundsRaise("ValueError")
        ELSE LET scheme == parts[1]
                 rest   == parts[2]
             IN  IF scheme = S_END
                 THEN IF IsNone(d) THEN BoundsRaise("TypeError")
                      ELSE Bounds(Len(d.v), Len(d.v))
                 ELSE IF scheme = S_chars THEN CharsBounds(d, rest)
                 ELSE IF scheme = S_match THEN MatchBounds(d, rest)
                 ELSE IF scheme = S_attr THEN AttrBounds(d, rest)
                 ELSE BoundsRaise("KeyError")    \* xptr, and any other scheme

\* A variant whose copy: takes the document up to the end of the range,
\* doc[:toChar] instead of doc[frChar:toChar].
getSource_copyFromStart(d, src) ==
    LET parts == SplitColon(src)
    IN  IF Len(parts) # 2 THEN Raise("ValueError")
        ELSE LET scheme == parts[1]
                 rest   == parts[2]
             IN  IF scheme = S_text
                 THEN LET u == unescapeString(rest)
                      IN  IF IsStr(u) THEN Str(unquoteString(u.v))
                          ELSE IF u.t = "int"
                          THEN IF IntOf(u.v) = 0 THEN Str(<<>>)
                               ELSE Raise("AttributeError")
                          ELSE u
                 ELSE IF scheme = S_copy
                 THEN LET b == getTargetBounds(d, rest)
                      IN  IF b.t = "ok" THEN Str(Slice(d.v, 0, b.to))
                          ELSE Raise(b.t)
                 ELSE Raise("KeyError")

getSource(d, src) ==
    LET parts == SplitColon(src)
    IN  IF Len(parts) # 2 THEN Raise("ValueError")
        ELSE LET scheme == parts[1]
                 rest   == parts[2]
             IN  IF scheme = S_text
                 THEN LET u == unescapeString(rest)
                      IN  IF IsStr(u) THEN Str(unquoteString(u.v))
                          ELSE IF u.t = "int"     \* "if (not s)" takes 0
                          THEN IF IntOf(u.v) = 0 THEN Str(<<>>)
                               ELSE Raise("AttributeError")
                          ELSE u
                 ELSE IF scheme = S_copy
                 THEN LET b == getTargetBounds(d, rest)
                      IN  IF b.t = "ok" THEN Str(Slice(d.v, b.fr, b.to))
                          ELSE Raise(b.t)
                 ELSE Raise("KeyError")

\* A variant without the except clause: KeyError leaves apply.
apply_uncaught(ce, d) ==
    LET b == getTargetBounds(d, ce.target)
    IN  IF b.t # "ok" THEN Raise(b.t)
        ELSE LET srcString == getSource(d, ce.source)
             IN  IF ~IsStr(srcString) THEN srcString
                 ELSE Str(Slice(d.v, 0, b.fr) \o srcString.v \o SliceFrom(d.v, b.to))

\* A variant that keeps the replaced span: doc[frChar:] instead of doc[toChar:].
apply_keepsSpan(ce, d) ==
    LET b == getTargetBounds(d, ce.target)
    IN  IF b.t = "KeyError" THEN None
        ELSE IF b.t # "ok" THEN Raise(b.t)
        ELSE LET srcString == getSource(d, ce.source)
             IN  IF srcString.t = "KeyError" THEN None
                 ELSE IF ~IsStr(srcString) THEN srcString
                 ELSE Str(Slice(d.v, 0, b.fr) \o srcString.v \o SliceFrom(d.v, b.fr))

\* ChangeEvent.apply: KeyError from either resolver is reported and None is
\* returned; any other exception leaves apply.
apply(ce, d) ==
    LET b == getTargetBounds(d, ce.target)
    IN  IF b.t = "KeyError" THEN None
        ELSE IF b.t # "ok" THEN Raise(b.t)
        ELSE LET srcString == getSource(d, ce.source)
             IN  IF srcString.t = "KeyError" THEN None
                 ELSE IF ~IsStr(srcString) THEN srcString
                 ELSE Str(Slice(d.v, 0, b.fr) \o srcString.v \o SliceFrom(d.v, b.to))


-----------------------------------------------------------------------------
(* Inputs of the pure functions *)

Chars == {"a", "b"}

RECURSIVE StringsUpTo(_)
StringsUpTo(n) ==
    IF n = 0 THEN {<<>>}
    ELSE LET shorter == StringsUpTo(n - 1)
         IN  shorter \cup {<<c>> \o w : c \in Chars, w \in {x \in shorter : Len(x) = n - 1}}

\* "%d" % n
IntText(n) ==
    IF n < 0 THEN <<"-">> \o <<Digits[(0 - n) + 1]>> ELSE <<Digits[n + 1]>>

Colon == <<":">>
Quoted(w) == <<"\"">> \o w \o <<"\"">>

\* A marked-up document for the attr: scheme, "<e a="b">".
TaggedDoc == <<"<", "e", " ", "a", "=", "\"", "b", "\"", ">">>

Docs == StringsUpTo(MaxDocLen) \cup {TaggedDoc}

CharsTargets ==
    {S_chars \o Colon \o IntText(f) \o Colon \o IntText(t) :
        f \in (-1)..MaxOffset, t \in 0..MaxOffset}

MatchTargets ==
    {S_match \o Colon \o p :
        p \in {Quoted(<<"a">>), Quoted(<<"b">>), Quoted(<<"a", "b">>),
               Quoted(<<".">>), Quoted(<<"(">>), <<"b", "a">>, <<>>}}

OtherTargets ==
    { S_END \o Colon,
      S_xptr \o Colon,
      S_attr \o Colon \o <<"a", "=">> \o Quoted(<<"b">>),
      S_attr \o Colon \o <<"a">>,
      <<"f", "o", "o", ":">>,                      \* an unknown scheme
      S_END,                                        \* no ":" at all
      S_chars \o Colon \o <<"a", ":", "b">>,        \* offsets that are no numbers
      S_chars \o Colon \o <<"2">> }                 \* one offset only

Targets == CharsTargets \cup MatchTargets \cup OtherTargets

TextSources ==
    {S_text \o Colon \o w :
        w \in {Quoted(<<"a">>), Quoted(<<"b", "a">>), Quoted(<<>>), <<>>,
               <<"a">>, <<"0">>, <<"7">>, <<"LDQ", "b", "RDQ">>,
               <<"\\", "\"", "a", "\\", "\"">>, Quoted(<<"a", "\\">>)}}

CopySources ==
    {S_copy \o Colon \o t :
        t \in { S_END \o Colon, S_xptr \o Colon, S_END,
                S_match \o Colon \o Quoted(<<"a">>),
                S_match \o Colon \o Quoted(<<".">>),
                S_chars \o Colon \o <<"0", ":", "1">>,
                S_chars \o Colon \o <<"1", ":", "2">>,
                S_chars \o Colon \o <<"1", ":", "0">>,
                S_chars \o Colon \o <<"0", ":", "4">> }}

OtherSources == { <<"f", "o", "o", ":", "a">>, S_text, S_copy }

Sources == TextSources \cup CopySources \cup OtherSources

-----------------------------------------------------------------------------
(* A caller outside the store applying one ChangeEvent to one document *)

NoCall == [op |-> "none"]

InitApply ==
    /\ store = <<>>
    /\ tips = {}
    /\ halted = FALSE
    /\ doc \in {Str(d) : d \in Docs} \cup {None}
    /\ call = NoCall
    /\ meta = <<>>
    /\ nChanges = 0

\* The caller makes one call, r = ce.apply(doc).  apply does not change its
\* document; an exception that leaves apply ends the caller.
ApplyEvent(tgt, src) ==
    /\ ~halted
    /\ call = NoCall
    /\ LET r == apply([target |-> tgt, source |-> src], doc)
       IN  /\ call' = [op |-> "apply", target |-> tgt, source |-> src,
                       arg |-> doc, result |-> r]
           /\ halted' = IsRaise(r)
    /\ UNCHANGED <<store, tips, doc, loaderVars>>

NextApply == \E tgt \in Targets, src \in Sources : ApplyEvent(tgt, src)

SpecApply == InitApply /\ [][NextApply]_vars


-----------------------------------------------------------------------------
(* ChangeLing: the version store *)

NULL_CHANGE_ID == "0_0_0"

\* ChangeEvent.__init__: an empty baseId becomes the root sentinel; loaded
\* defaults to False.
ChangeEvent(baseId, changeId, target, source) ==
    [baseId   |-> IF baseId = "" THEN NULL_CHANGE_ID ELSE baseId,
     changeId |-> changeId,
     target   |-> target,
     source   |-> source,
     loaded   |-> FALSE]

\* self[ce.changeId] = ce
Put(st, ce) ==
    [k \in DOMAIN st \cup {ce.changeId} |-> IF k = ce.changeId THEN ce ELSE st[k]]

\* What a caller sees of one addChangeEvent call; "known" notes whether the
\* changeId was a key of the store when the call was made.
AddCall(ce, result) ==
    [op |-> "addChangeEvent", ce |-> ce, result |-> result,
     known |-> ce.changeId \in DOMAIN store]

\* A variant that deletes the base record from the store itself instead of
\* from the tips.
addChangeEvent_dropsBase(ce) ==
    IF ~(ce.baseId \in DOMAIN store \/ ce.baseId = NULL_CHANGE_ID)
    THEN /\ halted' = TRUE
         /\ call' = AddCall(ce, "fatal")
         /\ UNCHANGED <<store, tips>>
    ELSE /\ store' = Put([k \in DOMAIN store \ {ce.baseId} |-> store[k]], ce)
         /\ tips' = tips \cup {ce.changeId}
         /\ call' = AddCall(ce, "stored")
         /\ UNCHANGED halted

\* A variant that validates the baseId only after the record is written.
addChangeEvent_checksLate(ce) ==
    /\ store' = Put(store, ce)
    /\ tips' = (tips \ {ce.baseId}) \cup {ce.changeId}
    /\ IF ~(ce.baseId \in DOMAIN store \/ ce.baseId = NULL_CHANGE_ID)
       THEN halted' = TRUE /\ call' = AddCall(ce, "fatal")
       ELSE call' = AddCall(ce, "stored") /\ UNCHANGED halted

\* A variant for a linear history: the new record becomes the only tip.
addChangeEvent_singleTip(ce) ==
    IF ~(ce.baseId \in DOMAIN store \/ ce.baseId = NULL_CHANGE_ID)
    THEN /\ halted' = TRUE
         /\ call' = AddCall(ce, "fatal")
         /\ UNCHANGED <<store, tips>>
    ELSE /\ store' = Put(store, ce)
         /\ tips' = {ce.changeId}
         /\ call' = AddCall(ce, "stored")
         /\ UNCHANGED halted

\* A variant that reports the unknown baseId and stores the record all the
\* same (an error() in place of the fatal()).
addChangeEvent_storesOrphan(ce) ==
    /\ store' = Put(store, ce)
    /\ tips' = (tips \ {ce.baseId}) \cup {ce.changeId}
    /\ call' = AddCall(ce, "stored")
    /\ UNCHANGED halted

\* addChangeEvent: an unknown baseId is fatal (sys.exit) before anything is
\* written; otherwise the record is stored under its changeId, its base
\* leaves the tips and its changeId joins them.
\* A variant that edits in place: the base record takes the new record's
\* edit as well.
addChangeEvent_editsBase(ce) ==
    IF ~(ce.baseId \in DOMAIN store \/ ce.baseId = NULL_CHANGE_ID)
    THEN /\ halted' = TRUE
         /\ call' = AddCall(ce, "fatal")
         /\ UNCHANGED <<store, tips>>
    ELSE /\ store' = Put([k \in DOMAIN store |->
                            IF k = ce.baseId
                            THEN [store[k] EXCEPT !.target = ce.target,
                                                  !.source = ce.source]
                            ELSE store[k]], ce)
         /\ tips' = (tips \ {ce.baseId}) \cup {ce.changeId}
         /\ call' = AddCall(ce, "stored")
         /\ UNCHANGED halted

addChangeEvent(ce) ==
    IF ~(ce.baseId \in DOMAIN store \/ ce.baseId = NULL_CHANGE_ID)
    THEN /\ halted' = TRUE
         /\ call' = AddCall(ce, "fatal")
         /\ UNCHANGED <<store, tips>>
    ELSE /\ store' = Put(store, ce)
         /\ tips' = (tips \ {ce.baseId}) \cup {ce.changeId}
         /\ call' = AddCall(ce, "stored")
         /\ UNCHANGED halted

\* findAllTipVersions: changeTips maps every key to its record's baseId, then
\* every baseId that is a key of changeTips is deleted from it.
findAllTipVersions(st) ==
    LET changeTips == [cid \in DOMAIN st |-> st[cid].baseId]
        baseIds    == {changeTips[cid] : cid \in DOMAIN changeTips}
    IN  [cid \in DOMAIN changeTips \ baseIds |-> changeTips[cid]]

\* getPathToChangeId: from self[cid], prepend the record and follow baseId
\* until a record based on the root sentinel has been prepended.  A baseId
\* that is no key ends in the except branch, which itself raises
\* AttributeError (cur.baseChnge).  The loop has no other exit: when it
\* has taken more steps than the store has records it is on a cycle and
\* never returns ("diverges").
RECURSIVE PathFrom(_, _, _, _)
PathFrom(st, cur, thePath, fuel) ==
    LET path1 == <<cur>> \o thePath
    IN  IF cur.baseId = NULL_CHANGE_ID THEN [t |-> "ok", path |-> path1]
        ELSE IF cur.baseId \notin DOMAIN st THEN [t |-> "AttributeError", path |-> <<>>]
        ELSE IF fuel = 0 THEN [t |-> "diverges", path |-> <<>>]
        ELSE PathFrom(st, st[cur.baseId], path1, fuel - 1)

getPathToChangeId(st, cid) ==
    IF cid \notin DOMAIN st THEN [t |-> "KeyError", path |-> <<>>]
    ELSE PathFrom(st, st[cid], <<>>, Cardinality(DOMAIN st))

\* path2Document: doc = ""; each change of the path is applied to doc in
\* turn; a None result is reported and the loop goes on.
RECURSIVE ReplayFrom(_, _, _)
ReplayFrom(thePath, i, d) ==
    IF i > Len(thePath) THEN d
    ELSE LET r == apply(thePath[i], d)
         IN  IF IsRaise(r) THEN r ELSE ReplayFrom(thePath, i + 1, r)

\* A variant whose loop starts at the second change.
path2Document_skipsFirst(thePath) == ReplayFrom(thePath, 2, Str(<<>>))

path2Document(thePath) == ReplayFrom(thePath, 1, Str(<<>>))

getDocAsOfChangeId(st, cid) ==
    LET cpath == getPathToChangeId(st, cid)
    IN  IF cpath.t # "ok" THEN Raise(cpath.t) ELSE path2Document(cpath.path)

\* sorted() of ids: the ids the model uses, in the order of Python's string
\* comparison.
KeyOrder == <<NULL_CHANGE_ID, "1", "2", "3", "4">>
InSet(S, k) == k \in S
Sorted(S) == SelectSeq(KeyOrder, LAMBDA k : InSet(S, k))

\* The last loop of dump: getDocAsOfChangeId for every id of cidOrder, each
\* result printed; the first exception leaves dump with what was printed
\* before it.
DumpDocs(docs) ==
    LET raised == {i \in 1..Len(docs) : IsRaise(docs[i])}
    IN  IF raised = {} THEN [t |-> "ok", docs |-> docs]
        ELSE [t |-> docs[MinOf(raised)].t, docs |-> SubSeq(docs, 1, MinOf(raised) - 1)]

\* dump: prints the records in the order of their sorted ids, then the tips
\* as findAllTipVersions() gives them, then the document as of every id.
dump(st) ==
    [cidOrder |-> Sorted(DOMAIN st),
     theTips  |-> DOMAIN findAllTipVersions(st),
     printed  |-> DumpDocs([i \in 1..Cardinality(DOMAIN st) |->
                                getDocAsOfChangeId(st, Sorted(DOMAIN st)[i])])]

-----------------------------------------------------------------------------
(* The store driven by its callers *)

ChangeIds == {"1", "2", "3"}

\* The edits the callers of the store submit: an append, a replacement of
\* the first "a", and an edit with the reserved xptr: target.
Edits ==
    { [target |-> S_END \o Colon, source |-> S_text \o Colon \o Quoted(<<"a">>)],
      [target |-> S_match \o Colon \o Quoted(<<"a">>),
       source |-> S_text \o Colon \o Quoted(<<"b">>)],
      [target |-> S_xptr \o Colon, source |-> S_text \o Colon \o Quoted(<<"a">>)] }

Init ==
    /\ store = <<>>
    /\ tips = {}
    /\ halted = FALSE
    /\ doc = Str(<<>>)
    /\ call = NoCall
    /\ meta = <<>>
    /\ nChanges = 0

AddChangeEvent(baseId, changeId, e) ==
    /\ ~halted
    /\ addChangeEvent(ChangeEvent(baseId, changeId, e.target, e.source))
    /\ UNCHANGED <<doc, loaderVars>>

FindAllTipVersions ==
    /\ ~halted
    /\ call' = [op |-> "findAllTipVersions",
                result |-> DOMAIN findAllTipVersions(store)]
    /\ UNCHANGED <<store, tips, halted, doc, loaderVars>>

GetPathToChangeId(cid) ==
    /\ ~halted
    /\ LET r == getPathToChangeId(store, cid)
       IN  /\ call' = [op |-> "getPathToChangeId", cid |-> cid, result |-> r]
           /\ halted' = (r.t # "ok")
    /\ UNCHANGED <<store, tips, doc, loaderVars>>

\* A variant that keeps the document between calls: the replay starts from
\* the text the previous call produced.
GetDocAsOfChangeId_keepsDoc(cid) ==
    /\ ~halted
    /\ LET cpath == getPathToChangeId(store, cid)
           r == IF cpath.t # "ok" THEN Raise(cpath.t)
                ELSE ReplayFrom(cpath.path, 1, doc)
       IN  /\ call' = [op |-> "getDocAsOfChangeId", cid |-> cid, result |-> r]
           /\ halted' = IsRaise(r)
           /\ doc' = IF IsStr(r) THEN r ELSE doc
    /\ UNCHANGED <<store, tips, loaderVars>>

GetDocAsOfChangeId(cid) ==
    /\ ~halted
    /\ LET r == getDocAsOfChangeId(store, cid)
       IN  /\ call' = [op |-> "getDocAsOfChangeId", cid |-> cid, result |-> r]
           /\ halted' = IsRaise(r)
    /\ UNCHANGED <<store, tips, doc, loaderVars>>

Dump ==
    /\ ~halted
    /\ \E r \in {dump(store)} :
            /\ call' = [op |-> "dump", result |-> r]
            /\ halted' = (r.printed.t # "ok")
    /\ UNCHANGED <<store, tips, doc, loaderVars>>

Next ==
    \/ \E baseId \in ChangeIds \cup {NULL_CHANGE_ID, ""},
          changeId \in ChangeIds, e \in Edits :
            AddChangeEvent(baseId, changeId, e)
    \/ FindAllTipVersions
    \/ \E cid \in DOMAIN store : GetPathToChangeId(cid)
    \/ \E cid \in DOMAIN store : GetDocAsOfChangeId(cid)

Spec == Init /\ [][Next]_vars

\* The store filled by its callers and then inspected with dump.
NextDump ==
    \/ \E baseId \in ChangeIds \cup {NULL_CHANGE_ID, ""},
          changeId \in ChangeIds, e \in Edits :
            AddChangeEvent(baseId, changeId, e)
    \/ Dump

SpecDump == Init /\ [][NextDump]_vars


-----------------------------------------------------------------------------
(* Properties of the store *)

Added(c)     == c.op = "addChangeEvent"
RootOrStored(id) == id = NULL_CHANGE_ID \/ id \in DOMAIN store

\* C1: tip correctness: after any sequence of insertions that addChangeEvent
\* accepts, the ids in self.tips are the ids findAllTipVersions() returns.
\* The code accepts a changeId that is already a key (see C5), and then the
\* two differ.
C1_TipCorrectness == tips = DOMAIN findAllTipVersions(store)

\* C2: append-only integrity: an insertion of a record with a fresh id and a
\* parent that is the root sentinel or stored leaves every stored id in the
\* store, mapped to the same record.
C2_AppendOnly ==
    [][ (/\ Added(call')
         /\ call'.ce.changeId \notin DOMAIN store
         /\ RootOrStored(call'.ce.baseId))
        => /\ DOMAIN store' = DOMAIN store \cup {call'.ce.changeId}
           /\ \A k \in DOMAIN store : store'[k] = store[k]
      ]_vars

C2_Witness ==
    /\ Added(call) /\ call.result = "stored" /\ ~call.known
    /\ Cardinality(DOMAIN store) = 3
    /\ call.ce.baseId \in DOMAIN store

\* C3: orphan rejection: a record whose baseId is neither the root sentinel
\* nor a key of the store ends the process, and the mapping and the tips are
\* as they were before the call.
C3_OrphanRejected ==
    [][ (Added(call') /\ ~RootOrStored(call'.ce.baseId))
        => /\ halted' /\ call'.result = "fatal"
           /\ store' = store /\ tips' = tips
      ]_vars

C3_Witness ==
    /\ Added(call) /\ call.result = "fatal" /\ halted
    /\ Cardinality(DOMAIN store) = 2 /\ tips # {}

\* The id reached from id by following baseId n times.
RECURSIVE Climb(_, _)
Climb(id, n) ==
    IF n = 0 \/ id \notin DOMAIN store THEN id ELSE Climb(store[id].baseId, n - 1)

\* C4: tree invariant: from every stored record, following baseId reaches the
\* root sentinel without visiting a record twice, that is, within as many
\* steps as the store has records.  Fails once an id has been reused (C5).
C4_TreeInvariant ==
    \A cid \in DOMAIN store :
        \E n \in 1..Cardinality(DOMAIN store) : Climb(cid, n) = NULL_CHANGE_ID

\* C5: ids are unique: an accepted insertion never displaces or replaces the
\* record stored earlier under its changeId, so every stored record stays
\* what it was.  The code overwrites.
C5_RecordsNeverReplaced ==
    [][ \A k \in DOMAIN store : k \in DOMAIN store' /\ store'[k] = store[k] ]_vars


-----------------------------------------------------------------------------
(* Properties of the replay *)

\* C6: getPathToChangeId(id) of a stored id returns the ancestry from the
\* oldest ancestor to id: the first element is based on the root sentinel,
\* every later one on the element before it, and the last is the record
\* stored under id.  On a store with a cycle (C5) the call never returns.
C6_PathOrdered ==
    call.op = "getPathToChangeId" =>
        LET thePath == call.result.path
        IN  /\ call.result.t = "ok"
            /\ thePath # <<>>
            /\ thePath[1].baseId = NULL_CHANGE_ID
            /\ \A i \in 2..Len(thePath) : thePath[i].baseId = thePath[i - 1].changeId
            /\ thePath[Len(thePath)] = store[call.cid]

\* The left fold of apply over a list of changes; an exception ends it.
RECURSIVE FoldApply(_, _)
FoldApply(d, changes) ==
    IF changes = <<>> THEN d
    ELSE FoldApply(IF IsRaise(d) THEN d ELSE apply(Head(changes), d), Tail(changes))

\* C7: getDocAsOfChangeId(id) is the left fold of apply over
\* getPathToChangeId(id) from the empty string, and the record based on the
\* root sentinel is the first of the path, so it is applied to "".
C7_ReplayIsFold ==
    (call.op = "getDocAsOfChangeId" /\ getPathToChangeId(store, call.cid).t = "ok") =>
        LET thePath == getPathToChangeId(store, call.cid).path
        IN  /\ call.result = FoldApply(Str(<<>>), thePath)
            /\ \A i \in 1..Len(thePath) :
                    (thePath[i].baseId = NULL_CHANGE_ID) <=> (i = 1)

C7_Witness ==
    /\ call.op = "getDocAsOfChangeId"
    /\ getPathToChangeId(store, call.cid).t = "ok"
    /\ Len(getPathToChangeId(store, call.cid).path) = 3
    /\ call.result = Str(<<"b", "a">>)

\* C8: failure propagation: when apply of some record of the chain returns
\* None, getDocAsOfChangeId returns None (it does not raise, and returns no
\* text).  The code goes on and applies the next record to None.
C8_FailurePropagates ==
    (call.op = "getDocAsOfChangeId" /\ getPathToChangeId(store, call.cid).t = "ok") =>
        LET thePath == getPathToChangeId(store, call.cid).path
        IN  (\E i \in 1..Len(thePath) : IsNone(FoldApply(Str(<<>>), SubSeq(thePath, 1, i))))
                => (call.result = None /\ ~halted)

-----------------------------------------------------------------------------
(* Properties of apply *)

SchemeOf(spec) == SplitColon(spec)[1]
HasScheme(spec) == Len(SplitColon(spec)) = 2

Occurs(p, d) ==
    \E i \in 0..(Len(d) - Len(p)) : SubSeq(d, i + 1, i + Len(p)) = p

\* The failures C9 lists, read off the text of the specification.
NoMatchTarget(tgt, d) ==
    \E p \in {<<"a">>, <<"b">>, <<"a", "b">>} :
        tgt = S_match \o Colon \o Quoted(p) /\ ~Occurs(p, d)
BadRangeTarget(tgt, d) ==
    \E f \in 0..(MaxOffset + 1), t \in 0..(MaxOffset + 1) :
        /\ tgt = S_chars \o Colon \o IntText(f) \o Colon \o IntText(t)
        /\ (f > t \/ t > Len(d))
UnknownTargetScheme(tgt) ==
    HasScheme(tgt) /\ SchemeOf(tgt) \notin {S_END, S_chars, S_match, S_attr, S_xptr}
XptrTarget(tgt) == HasScheme(tgt) /\ SchemeOf(tgt) = S_xptr
ListedTargetFailure(tgt, d) ==
    \/ NoMatchTarget(tgt, d) \/ BadRangeTarget(tgt, d)
    \/ UnknownTargetScheme(tgt) \/ XptrTarget(tgt)
ListedSourceFailure(src, d) ==
    /\ HasScheme(src)
    /\ \/ SchemeOf(src) \notin {S_text, S_copy}
       \/ SchemeOf(src) = S_copy /\ ListedTargetFailure(SplitColon(src)[2], d)

\* C9: when the target fails to resolve in one of the listed ways, or the
\* target resolves and the source fails in one of them, apply on a document
\* returns None and does not raise.
C9_ResolutionFailureIsNone ==
    (call.op = "apply" /\ IsStr(call.arg)) =>
        LET d == call.arg.v
        IN  (\/ ListedTargetFailure(call.target, d)
             \/ /\ getTargetBounds(call.arg, call.target).t = "ok"
                /\ ListedSourceFailure(call.source, d))
            => (call.result = None /\ ~halted)

C9_Witness ==
    /\ call.op = "apply" /\ call.arg = Str(<<"a", "b">>)
    /\ call.target = S_END \o Colon
    /\ call.source = S_copy \o Colon \o S_chars \o Colon \o <<"0", ":", "4">>
    /\ call.result = None

\* C10: when both resolutions succeed, the result is the document before
\* start, the replacement, and the document from end on, with bounds and
\* replacement resolved against the document as it was given.
C10_Splice ==
    (call.op = "apply" /\ IsStr(call.arg)) =>
        LET d == call.arg.v
            b == getTargetBounds(call.arg, call.target)
            r == getSource(call.arg, call.source)
        IN  (b.t = "ok" /\ IsStr(r)) =>
                /\ IsStr(call.result)
                /\ Len(call.result.v) = Len(d) - (b.to - b.fr) + Len(r.v)
                /\ \A i \in 1..b.fr : call.result.v[i] = d[i]
                /\ \A i \in 1..Len(r.v) : call.result.v[b.fr + i] = r.v[i]
                /\ \A i \in (b.to + 1)..Len(d) :
                        call.result.v[i - b.to + b.fr + Len(r.v)] = d[i]

C10_Witness ==
    /\ call.op = "apply" /\ call.arg = Str(<<"a", "b", "a">>)
    /\ call.target = S_match \o Colon \o Quoted(<<"b">>)
    /\ call.source = S_copy \o Colon \o S_chars \o Colon \o <<"0", ":", "1">>
    /\ call.result = Str(<<"a", "a", "a">>)

\* The range a call of apply got from getTargetBounds for its target.
TargetRange(c) == getTargetBounds(c.arg, c.target)
CharsTarget(f, t) == S_chars \o Colon \o IntText(f) \o Colon \o IntText(t)

\* C11: range safety: whenever getTargetBounds returns a range for a document
\* it satisfies 0 <= start <= end <= len(doc); chars:f:t fails (KeyError)
\* instead of returning whenever f > t, f < 0 or t > len(doc); END: returns
\* start = end = len(doc).
C11_RangeSafety ==
    (call.op = "apply" /\ IsStr(call.arg)) =>
        LET d == call.arg.v
            b == TargetRange(call)
        IN  /\ b.t = "ok" => (0 <= b.fr /\ b.fr <= b.to /\ b.to <= Len(d))
            /\ \A f \in (-1)..(MaxOffset + 1), t \in 0..(MaxOffset + 1) :
                    (call.target = CharsTarget(f, t) /\ (f > t \/ f < 0 \/ t > Len(d)))
                        => b.t = "KeyError"
            /\ call.target = S_END \o Colon => b = Bounds(Len(d), Len(d))

\* A chars range that ends exactly at the end of the document is returned.
C11_Witness ==
    /\ call.op = "apply" /\ call.arg = Str(<<"a", "b">>)
    /\ call.target = CharsTarget(1, 2)
    /\ TargetRange(call) = Bounds(1, 2)

-----------------------------------------------------------------------------
(* Forks *)

\* C12: fork: when a record with a fresh id and a stored baseId has just been
\* inserted and a second record with another fresh id and the same baseId is
\* inserted, both insertions are accepted, and afterwards both new ids are
\* tips and the shared base is not, in self.tips and in what
\* findAllTipVersions() returns; the two ids may come in either order.
C12_Fork ==
    [][ (/\ Added(call) /\ ~call.known
         /\ Added(call') /\ call'.ce.changeId \notin DOMAIN store
         /\ call'.ce.baseId = call.ce.baseId
         /\ call.ce.baseId \in DOMAIN store)
        => /\ call.result = "stored" /\ call'.result = "stored"
           /\ {call.ce.changeId, call'.ce.changeId} \subseteq tips'
           /\ call.ce.baseId \notin tips'
           /\ {call.ce.changeId, call'.ce.changeId}
                    \subseteq DOMAIN findAllTipVersions(store')
           /\ call.ce.baseId \notin DOMAIN findAllTipVersions(store')
      ]_vars

\* Record "1" forked into "3" and then "2".
C12_Witness ==
    /\ Added(call) /\ call.result = "stored" /\ ~call.known
    /\ call.ce.changeId = "2"
    /\ DOMAIN store = {"1", "2", "3"}
    /\ store["1"].baseId = NULL_CHANGE_ID
    /\ store["2"].baseId = "1" /\ store["3"].baseId = "1"
    /\ tips = {"2", "3"}
    /\ DOMAIN findAllTipVersions(store) = {"2", "3"}

-----------------------------------------------------------------------------
(* Properties of repeated and failing replays *)

\* C13: replay determinism: a call getDocAsOfChangeId(id) that directly
\* follows a call with the same id leaves the store as it was and returns
\* the same result, the same text or the same None.
C13_ReplayDeterministic ==
    [][ (/\ call.op = "getDocAsOfChangeId"
         /\ call'.op = "getDocAsOfChangeId"
         /\ call'.cid = call.cid)
        => (store' = store /\ tips' = tips /\ call'.result = call.result)
      ]_vars

\* A replay of a two-record chain that returned None and can be repeated.
C13_Witness ==
    /\ call.op = "getDocAsOfChangeId" /\ ~halted
    /\ call.result = None
    /\ getPathToChangeId(store, call.cid).t = "ok"
    /\ Len(getPathToChangeId(store, call.cid).path) = 2

-----------------------------------------------------------------------------
(* Copy onto self *)

CopyOntoSelf(c) ==
    c.op = "apply" /\ IsStr(c.arg) /\ c.source = S_copy \o Colon \o c.target

\* C14 as stated: for every document and every target T, apply of a record
\* with target T and source copy:T returns the document it was given.  A T
\* that does not resolve (xptr:, a pattern with no match, a bad range, a T
\* without ":") makes apply return None or raise instead.
C14_CopyOntoSelfAlways == CopyOntoSelf(call) => call.result = call.arg

\* C14, amended: the same for every T that getTargetBounds resolves on the
\* document.
C14_CopyOntoSelfResolved ==
    (CopyOntoSelf(call) /\ TargetRange(call).t = "ok")
        => (call.result = call.arg /\ ~halted)

C14_Witness ==
    /\ CopyOntoSelf(call) /\ call.arg = Str(<<"a", "b", "a">>)
    /\ call.target = S_match \o Colon \o Quoted(<<".">>)
    /\ TargetRange(call) = Bounds(0, 1)
    /\ call.result = call.arg

-----------------------------------------------------------------------------
(* ChangeLing: loading a change-log file, new changes, saving *)

\* A line of a change-log file, as far as loadFromPlain tells lines apart: a
\* change line with its six comma-separated fields stripped (user and time
\* are not kept here), a change line with fewer fields, a "#META" line with
\* the name and the quoted value the pattern of storeMeta looks for, and any
\* other line that starts with "#".
ChangeLine(baseId, changeId, e) ==
    [kind |-> "change", baseId |-> baseId, changeId |-> changeId,
     target |-> e.target, source |-> e.source]
ShortLine   == [kind |-> "short"]
MetaLine(field, val) == [kind |-> "meta", field |-> field, val |-> val]
CommentLine == [kind |-> "comment"]

\* ChangeEvent(..., loaded=True), as both loaders construct it.
LoadedChangeEvent(baseId, changeId, target, source) ==
    [ChangeEvent(baseId, changeId, target, source) EXCEPT !.loaded = TRUE]

\* The state of a load in progress and how it ended so far.
Loading(st, tp, m, res) == [store |-> st, tips |-> tp, meta |-> m, result |-> res]

\* addFromPlainRec followed by addChangeEvent, on the loader's own copies.
AddLoaded(st, tp, m, ce) ==
    IF ~(ce.baseId \in DOMAIN st \/ ce.baseId = NULL_CHANGE_ID)
    THEN Loading(st, tp, m, "fatal")
    ELSE Loading(Put(st, ce), (tp \ {ce.baseId}) \cup {ce.changeId}, m, "ok")

addFromPlainRec(st, tp, m, rec) ==
    IF rec.kind = "short" THEN Loading(st, tp, m, "ValueError")
    ELSE AddLoaded(st, tp, m,
            LoadedChangeEvent(rec.baseId, rec.changeId, rec.target, rec.source))

\* storeMeta: the pattern wants a name of two characters or more (the assert
\* fails otherwise); a new name gets a one-element list; a name that is
\* already there reaches self.meta[field].appen(val), and lists have no
\* attribute appen.
storeMeta(st, tp, m, rec) ==
    IF Len(rec.field) < 2 THEN Loading(st, tp, m, "AssertionError")
    ELSE IF rec.field \notin DOMAIN m
    THEN Loading(st, tp,
                 [f \in DOMAIN m \cup {rec.field} |->
                        IF f = rec.field THEN <<rec.val>> ELSE m[f]],
                 "ok")
    ELSE Loading(st, tp, m, "AttributeError")

\* One turn of the loop of loadFromPlain; n is self.nChanges.
LoadLine(st, tp, m, n, rec) ==
    IF rec.kind \in {"change", "short"} THEN addFromPlainRec(st, tp, m, rec)
    ELSE IF rec.kind = "meta"
    THEN IF n # 0 THEN Loading(st, tp, m, "AssertionError")
         ELSE storeMeta(st, tp, m, rec)
    ELSE Loading(st, tp, m, "ok")

\* The loop, and after the last line self.tips = self.findAllTipVersions().
\* An exception or sys.exit leaves the loop with what was done so far.
RECURSIVE LoadLines(_, _, _, _)
LoadLines(lines, i, n, cur) ==
    IF cur.result # "ok" THEN cur
    ELSE IF i > Len(lines)
    THEN Loading(cur.store, DOMAIN findAllTipVersions(cur.store), cur.meta, "ok")
    ELSE LoadLines(lines, i + 1, n,
                   LoadLine(cur.store, cur.tips, cur.meta, n, lines[i]))

LoadCall(cfile, result) == [op |-> "loadFromPlain", cfile |-> cfile, result |-> result]

\* loadFromPlain(cfile): asserts that the store is empty, sets nChanges to 0
\* and reads every line.
loadFromPlain(cfile) ==
    IF DOMAIN store # {}
    THEN /\ halted' = TRUE
         /\ call' = LoadCall(cfile, "AssertionError")
         /\ UNCHANGED <<store, tips, meta, nChanges>>
    ELSE LET r == LoadLines(cfile, 1, 0, Loading(store, tips, meta, "ok"))
         IN  /\ store' = r.store
             /\ tips' = r.tips
             /\ meta' = r.meta
             /\ nChanges' = 0
             /\ halted' = (r.result # "ok")
             /\ call' = LoadCall(cfile, r.result)

\* getNewChanges: the keys of the records that are not flagged loaded, sorted.
getNewChanges(st) == Sorted({k \in DOMAIN st : ~st[k].loaded})

\* save: opens the file for appending and, for each ch of getNewChanges(),
\* writes ch.tostring().  getNewChanges() gives keys, which are strings, so
\* the first turn of the loop raises AttributeError and nothing is written.
save(st) ==
    IF getNewChanges(st) = <<>> THEN [t |-> "ok", written |-> <<>>]
    ELSE [t |-> "AttributeError", written |-> <<>>]

-----------------------------------------------------------------------------
(* A session: a change log is loaded, changes are added, new ones saved *)

MaxLines == 3       \* most lines of a change-log file

AppendEdit == [target |-> S_END \o Colon, source |-> S_text \o Colon \o Quoted(<<"a">>)]

FileLines ==
    { ChangeLine("", "1", AppendEdit),
      ChangeLine("1", "2", AppendEdit),
      ChangeLine("2", "3", AppendEdit),
      ShortLine,
      MetaLine(<<"i", "d">>, <<"x">>),
      MetaLine(<<"i", "d">>, <<"y">>),
      MetaLine(<<"t">>, <<"x">>),
      CommentLine }

RECURSIVE FilesUpTo(_)
FilesUpTo(n) ==
    IF n = 0 THEN {<<>>}
    ELSE LET shorter == FilesUpTo(n - 1)
         IN  shorter \cup {<<l>> \o f : l \in FileLines, f \in {x \in shorter : Len(x) = n - 1}}

Files == FilesUpTo(MaxLines)

LoadFromPlain(cfile) ==
    /\ ~halted
    /\ loadFromPlain(cfile)
    /\ UNCHANGED doc

\* A change made in the session: ChangeEvent(...) with loaded left False.
AddNewChange(baseId, changeId) ==
    /\ ~halted
    /\ addChangeEvent(ChangeEvent(baseId, changeId, AppendEdit.target, AppendEdit.source))
    /\ UNCHANGED <<doc, loaderVars>>

\* A variant that marks what it reports: the records it returns count as
\* loaded afterwards.
GetNewChanges_marksLoaded ==
    /\ ~halted
    /\ call' = [op |-> "getNewChanges", result |-> getNewChanges(store)]
    /\ store' = [k \in DOMAIN store |-> [store[k] EXCEPT !.loaded = TRUE]]
    /\ UNCHANGED <<tips, halted, doc, loaderVars>>

GetNewChanges ==
    /\ ~halted
    /\ call' = [op |-> "getNewChanges", result |-> getNewChanges(store)]
    /\ UNCHANGED <<store, tips, halted, doc, loaderVars>>

Save ==
    /\ ~halted
    /\ call' = [op |-> "save", result |-> save(store)]
    /\ halted' = (save(store).t # "ok")
    /\ UNCHANGED <<store, tips, doc, loaderVars>>

NextLoad ==
    \/ \E cfile \in Files : LoadFromPlain(cfile)
    \/ \E baseId \in {"", "1"}, changeId \in {"2", "3"} : AddNewChange(baseId, changeId)
    \/ GetNewChanges
    \/ Save

SpecLoad == Init /\ [][NextLoad]_vars

-----------------------------------------------------------------------------
(* Properties of loading *)

MetaAfterChange(cfile) ==
    \E i, j \in 1..Len(cfile) :
        i < j /\ cfile[i].kind = "change" /\ cfile[j].kind = "meta"

\* C15: metadata precedes data: a load of a file in which a "#META" line
\* comes after a change line does not run to its end: by the time the
\* "#META" line is read a record has been added, so the load aborts there.
\* The code tests self.nChanges, which nothing ever increments, so the line
\* is accepted and stored.
C15_MetaPrecedesData ==
    (call.op = "loadFromPlain" /\ MetaAfterChange(call.cfile))
        => (call.result # "ok" /\ halted)

-----------------------------------------------------------------------------
(* Termination of the replay *)

\* C16: replay terminates: in every store reached through addChangeEvent and
\* for every stored id, getPathToChangeId and getDocAsOfChangeId return after
\* visiting at most as many records as the store holds.  After an id has
\* been reused (C5) the baseId links can form a cycle, and the walk never
\* ends.
C16_ReplayTerminates ==
    \A cid \in DOMAIN store :
        /\ getPathToChangeId(store, cid).t # "diverges"
        /\ Len(getPathToChangeId(store, cid).path) <= Cardinality(DOMAIN store)
        /\ getDocAsOfChangeId(store, cid).t # "diverges"

-----------------------------------------------------------------------------
(* Failing chains and dump *)

\* The chain of cid replays without any apply returning None or raising.
ChainResolves(st, cid) ==
    LET cpath == getPathToChangeId(st, cid)
    IN  /\ cpath.t = "ok"
        /\ \A i \in 1..Len(cpath.path) :
                IsStr(FoldApply(Str(<<>>), SubSeq(cpath.path, 1, i)))

\* C17: a failed replay is local to its chain: on a store whose chains all
\* end at the root, dump lists the tips and prints a document for every
\* stored id without raising, and for every id whose chain holds no record
\* that fails to resolve the printed document is its text.  The code stops
\* at the first id that has a failing record below its last one (C8).
C17_FailureIsLocal ==
    (/\ call.op = "dump"
     /\ \A cid \in DOMAIN store : getPathToChangeId(store, cid).t = "ok")
    => /\ call.result.printed.t = "ok" /\ ~halted
       /\ call.result.theTips = DOMAIN findAllTipVersions(store)
       /\ Len(call.result.printed.docs) = Len(call.result.cidOrder)
       /\ \A i \in 1..Len(call.result.cidOrder) :
            ChainResolves(store, call.result.cidOrder[i])
                => call.result.printed.docs[i]
                        = getDocAsOfChangeId(store, call.result.cidOrder[i])

-----------------------------------------------------------------------------
(* The smoke test: sampleData added line by line, then dump *)

\* The texts, the words looked for and their replacements.
SmokeTexts == {<<"a">>, <<"a", "b">>}
SmokeWords == {<<"a">>, <<"b">>, <<"b", "a">>}
SmokeRepl  == {<<>>, <<"b", "b">>}

TextSource(w) == S_text \o Colon \o Quoted(w)
MatchTarget(w) == S_match \o Colon \o Quoted(w)

\* The four shapes of line of sampleData.
SampleLines ==
    {ChangeLine(NULL_CHANGE_ID, "1",
                [target |-> S_chars \o Colon \o <<"0", ":", "0">>,
                 source |-> TextSource(A)]) : A \in SmokeTexts}
    \cup {ChangeLine("1", "2", [target |-> S_END \o Colon, source |-> TextSource(B)]) :
            B \in SmokeTexts}
    \cup {ChangeLine("2", cid, [target |-> MatchTarget(w), source |-> TextSource(w2)]) :
            cid \in {"3", "4"}, w \in SmokeWords, w2 \in SmokeRepl}

\* doPlainTest's call changeling.addFromPlainRec(rec).
AddFromPlainRec(rec) ==
    /\ ~halted
    /\ \E r \in {addFromPlainRec(store, tips, meta, rec)} :
            /\ store' = r.store
            /\ tips' = r.tips
            /\ halted' = (r.result # "ok")
            /\ call' = [op |-> "addFromPlainRec", rec |-> rec, result |-> r.result]
    /\ UNCHANGED <<doc, loaderVars>>

NextSmoke ==
    \/ \E rec \in SampleLines : AddFromPlainRec(rec)
    \/ Dump

SpecSmoke == Init /\ [][NextSmoke]_vars

\* d with its first occurrence of w replaced by r.
ReplaceFirst(d, w, r) ==
    LET at == MinOf({i \in 0..(Len(d) - Len(w)) : SubSeq(d, i + 1, i + Len(w)) = w})
    IN  SubSeq(d, 1, at) \o r \o SubSeq(d, at + Len(w) + 1, Len(d))

Stored(cid, baseId, target, source) ==
    /\ cid \in DOMAIN store
    /\ store[cid].baseId = baseId
    /\ store[cid].target = target
    /\ store[cid].source = source

\* The chain C1 (root, text A), C2 (on C1, END:, text B), C3 (on C2, match:w,
\* text w2) is what the store holds under "1", "2", "3".
SmokeChain(A, B, w, w2) ==
    /\ Stored("1", NULL_CHANGE_ID, S_chars \o Colon \o <<"0", ":", "0">>, TextSource(A))
    /\ Stored("2", "1", S_END \o Colon, TextSource(B))
    /\ Stored("3", "2", MatchTarget(w), TextSource(w2))
    /\ Occurs(w, A \o B)

\* C18: round trip of the smoke test: with that chain stored, dump prints A
\* for C1, A+B for C2 and, for C3, A+B with the first occurrence of w
\* replaced by w2; a sibling C4 (on C2, match:w, text w3) stored under "4"
\* prints A+B with the first occurrence of w replaced by w3.
C18_SmokeRoundTrip ==
    call.op = "dump" =>
        \A A \in SmokeTexts, B \in SmokeTexts, w \in SmokeWords, w2 \in SmokeRepl :
            SmokeChain(A, B, w, w2) =>
                /\ Len(call.result.printed.docs) = Cardinality(DOMAIN store)
                /\ call.result.printed.docs[1] = Str(A)
                /\ call.result.printed.docs[2] = Str(A \o B)
                /\ call.result.printed.docs[3] = Str(ReplaceFirst(A \o B, w, w2))
                /\ \A w3 \in SmokeRepl :
                        Stored("4", "2", MatchTarget(w), TextSource(w3))
                            => call.result.printed.docs[4]
                                    = Str(ReplaceFirst(A \o B, w, w3))

\* "ab" + "a", the second of two "a" left alone: C3 removes the first, C4
\* doubles it into "bb".
C18_Witness ==
    /\ call.op = "dump"
    /\ SmokeChain(<<"a", "b">>, <<"a">>, <<"a">>, <<>>)
    /\ Stored("4", "2", MatchTarget(<<"a">>), TextSource(<<"b", "b">>))
    /\ call.result.theTips = {"3", "4"}
    /\ call.result.printed.docs =
            << Str(<<"a", "b">>), Str(<<"a", "b", "a">>),
               Str(<<"b", "a">>), Str(<<"b", "b", "b", "a">>) >>

-----------------------------------------------------------------------------
(* Callers that choose any id, the root sentinel included *)

\* addChangeEvent takes whatever changeId the record has; nothing keeps a
\* caller or a change-log line from using "0_0_0".
NextAnyId ==
    \/ \E baseId \in {"", "1", "2"}, changeId \in {"1", "2", NULL_CHANGE_ID} :
            AddNewChange(baseId, changeId)
    \/ FindAllTipVersions

SpecAnyId == Init /\ [][NextAnyId]_vars

\* C19: the root sentinel is never stored: in every store reached through
\* addChangeEvent "0_0_0" is no key of the store and no tip, neither of
\* self.tips nor of findAllTipVersions(); it occurs only as a baseId.
C19_SentinelNeverStored ==
    /\ NULL_CHANGE_ID \notin DOMAIN store
    /\ NULL_CHANGE_ID \notin tips
    /\ NULL_CHANGE_ID \notin DOMAIN findAllTipVersions(store)

-----------------------------------------------------------------------------
(* New changes *)

\* C20: new-record tracking: records added by a loader are flagged loaded,
\* records constructed in the session are not; getNewChanges() returns the
\* ids of exactly the stored records that are not flagged, each once, in
\* sorted order; and save writes one line for each of them.  The code's save
\* treats the ids getNewChanges() returns as records and raises on the first.
C20_NewRecordTracking ==
    /\ call.op = "loadFromPlain" =>
            \A i \in 1..Len(call.cfile) :
                (call.cfile[i].kind = "change" /\ call.result = "ok")
                    => store[call.cfile[i].changeId].loaded
    /\ (call.op = "addChangeEvent" /\ call.result = "stored") => ~call.ce.loaded
    /\ call.op = "getNewChanges" =>
            /\ {call.result[i] : i \in 1..Len(call.result)}
                    = {k \in DOMAIN store : ~store[k].loaded}
            /\ \A i, j \in 1..Len(call.result) :
                    i < j => \E m, n \in 1..Len(KeyOrder) :
                                /\ m < n
                                /\ KeyOrder[m] = call.result[i]
                                /\ KeyOrder[n] = call.result[j]
    /\ call.op = "save" =>
            /\ call.result.t = "ok" /\ ~halted
            /\ Len(call.result.written) = Cardinality({k \in DOMAIN store : ~store[k].loaded})

-----------------------------------------------------------------------------
(* Properties of the metadata table *)

WellFormedMeta(rec) == rec.kind = "meta" /\ Len(rec.field) >= 2
IsMetaFor(name, rec) == rec.kind = "meta" /\ rec.field = name

\* The values a file gives for a name, in the order of its lines.
MetaValues(cfile, name) ==
    LET recs == SelectSeq(cfile, LAMBDA rec : IsMetaFor(name, rec))
    IN  [i \in 1..Len(recs) |-> recs[i].val]

IsSuffix(s, t) == Len(s) <= Len(t) /\ SubSeq(t, Len(t) - Len(s) + 1, Len(t)) = s

\* C21: metadata fields are repeatable: after a file of well-formed "#META"
\* lines has been read, the load has not failed and meta[name] ends with all
\* the values the file gives for name, in their order; a second value for a
\* name is appended.  The code calls self.meta[field].appen(val) for a name
\* that is already there, which raises AttributeError.
C21_MetaRepeatable ==
    (/\ call.op = "loadFromPlain"
     /\ \A i \in 1..Len(call.cfile) : WellFormedMeta(call.cfile[i]))
    => /\ call.result = "ok" /\ ~halted
       /\ \A i \in 1..Len(call.cfile) :
            /\ call.cfile[i].field \in DOMAIN meta
            /\ IsSuffix(MetaValues(call.cfile, call.cfile[i].field),
                        meta[call.cfile[i].field])

-----------------------------------------------------------------------------
(* Timestamps: makeEpochTime and the epochTime of ChangeEvent.__init__ *)

NULL_EPOCHTIME == -307614600

\* A number: sign, whole part, and the digits after the point (none for a
\* whole number).  The model's digits are "1" and "2", so no digit string
\* has zeros to drop and no number is zero.
Number(neg, whole, frac) == [t |-> "num", neg |-> neg, whole |-> whole, frac |-> frac]
WholeNumber(n) == Number(n < 0, IF n < 0 THEN 0 - n ELSE n, <<>>)

Unsigned(s) == IF s # <<>> /\ s[1] \in {"-", "+"} THEN Tail(s) ELSE s
PointAt(s) == IndexOf(s, ".")

\* float(s) for texts of sign, digits and points: digits with at most one
\* point, and at least one digit.
FloatParses(s) ==
    /\ \A i \in 1..Len(Unsigned(s)) : IsDigit(Unsigned(s)[i]) \/ Unsigned(s)[i] = "."
    /\ Cardinality({i \in 1..Len(Unsigned(s)) : Unsigned(s)[i] = "."}) <= 1
    /\ \E i \in 1..Len(Unsigned(s)) : IsDigit(Unsigned(s)[i])
FloatBody(neg, body, p) ==
    IF p = 0 THEN Number(neg, DecimalValue(body), <<>>)
    ELSE Number(neg, DecimalValue(SubSeq(body, 1, p - 1)), SubSeq(body, p + 1, Len(body)))
FloatOf(s) == FloatBody(s[1] = "-", Unsigned(s), PointAt(Unsigned(s)))

\* datetime.fromisoformat(s) and time.mktime for the dates the model writes,
\* the days of January 1970 ("1970-01-DD"), with the local zone taken as UTC.
IsoParses(s) ==
    /\ Len(s) = 10
    /\ SubSeq(s, 1, 8) = <<"1", "9", "7", "0", "-", "0", "1", "-">>
    /\ IsDigit(s[9]) /\ IsDigit(s[10])
    /\ DecimalValue(SubSeq(s, 9, 10)) \in 1..31
IsoSeconds(s) == (DecimalValue(SubSeq(s, 9, 10)) - 1) * 86400

\* makeEpochTime(s) with fail left False: float(s), else the ISO date, else
\* NULL_EPOCHTIME.
makeEpochTime(s) ==
    IF FloatParses(s) THEN FloatOf(s)
    ELSE IF IsoParses(s) THEN WholeNumber(IsoSeconds(s))
    ELSE WholeNumber(NULL_EPOCHTIME)

\* ChangeEvent.__init__: "if isinstance(epochTime, str): epochTime =
\* int(epochTime)"; a number is kept as it is.
ChangeEventEpochTime(epochTime) ==
    IF epochTime.t # "str" THEN epochTime
    ELSE IF IntParses(epochTime.v) THEN WholeNumber(IntOf(epochTime.v))
    ELSE Raise("ValueError")

TimeChars == {"1", "2", ".", "-", "a"}
MaxTimeLen == 3     \* longest timestamp text drawn from TimeChars

RECURSIVE TimeTextsUpTo(_)
TimeTextsUpTo(n) ==
    IF n = 0 THEN {<<>>}
    ELSE LET shorter == TimeTextsUpTo(n - 1)
         IN  shorter \cup {<<c>> \o w : c \in TimeChars, w \in {x \in shorter : Len(x) = n - 1}}

IsoTexts ==
    { <<"1", "9", "7", "0", "-", "0", "1", "-", "0", "2">>,
      <<"1", "9", "7", "0", "-", "0", "1", "-", "3", "1">>,
      <<"1", "9", "7", "0", "-", "0", "1", "-", "3", "2">> }

TimeTexts == TimeTextsUpTo(MaxTimeLen) \cup IsoTexts

\* addFromPlainRec: epochTime = makeEpochTime(fields[3].strip()), handed to
\* ChangeEvent(...).
PlainEpochTime(text) ==
    /\ ~halted
    /\ \E r \in {ChangeEventEpochTime(makeEpochTime(text))} :
            /\ call' = [op |-> "addFromPlainRec.epochTime", text |-> text, result |-> r]
            /\ halted' = (r.t # "num")
    /\ UNCHANGED <<store, tips, doc, loaderVars>>

\* loadFromXml: epochTime = node.getAttribute("date"), the text itself,
\* handed to ChangeEvent(...).
XmlEpochTime(text) ==
    /\ ~halted
    /\ \E r \in {ChangeEventEpochTime(Str(text))} :
            /\ call' = [op |-> "loadFromXml.epochTime", text |-> text, result |-> r]
            /\ halted' = (r.t # "num")
    /\ UNCHANGED <<store, tips, doc, loaderVars>>

NextTime ==
    \/ \E text \in TimeTexts : PlainEpochTime(text)
    \/ \E text \in TimeTexts : XmlEpochTime(text)

SpecTime == Init /\ [][NextTime]_vars

\* C22: timestamp fallback: through either loader the record is created
\* whatever the timestamp text: an integer text gives that number, an ISO
\* date gives its epoch seconds, and a text that is neither a number nor a
\* date gives NULL_EPOCHTIME.  The constructor converts a text with int(),
\* and loadFromXml hands it the text.
C22_TimestampFallback ==
    call.op \in {"addFromPlainRec.epochTime", "loadFromXml.epochTime"} =>
        /\ call.result.t = "num" /\ ~halted
        /\ IntParses(call.text) => call.result = WholeNumber(IntOf(call.text))
        /\ call.text \in {<<"1", "9", "7", "0", "-", "0", "1", "-", "0", "2">>}
                => call.result = WholeNumber(86400)
        /\ call.text \in {<<>>, <<"a">>, <<"-">>, <<"1", "a">>, <<"1", "-", "2">>}
                => call.result = WholeNumber(NULL_EPOCHTIME)

-----------------------------------------------------------------------------
(* ChangeId: tostring and fromstring *)

\* ChangeId.__init__ with user and seq given: a subuser that is false (0)
\* becomes the string "0", any other stays the integer it is.
ChangeId(user, seq, subuser) ==
    [user |-> user, seq |-> seq,
     subuser |-> IF subuser = 0 THEN Str(<<"0">>) ELSE [t |-> "int", n |-> subuser]]

HexDigits == Digits \o <<"a", "b", "c", "d", "e", "f">>

\* "%x" % n
RECURSIVE HexText(_)
HexText(n) ==
    IF n < 16 THEN <<HexDigits[n + 1]>>
    ELSE HexText(n \div 16) \o <<HexDigits[(n % 16) + 1]>>

\* "%s" % subuser, for the string "0" and for an integer below ten
SubuserText(subuser) == IF subuser.t = "str" THEN subuser.v ELSE IntText(subuser.n)

\* tostring: user, "_", seq in hexadecimal and, as self.subuser is never
\* false, "_" and the subuser.
ChangeIdToString(c) ==
    c.user \o <<"_">> \o HexText(c.seq) \o <<"_">> \o SubuserText(c.subuser)

\* s.split(sep="_")
RECURSIVE SplitUnderscore(_)
SplitUnderscore(s) ==
    IF IndexOf(s, "_") = 0 THEN <<s>>
    ELSE <<SubSeq(s, 1, IndexOf(s, "_") - 1)>>
            \o SplitUnderscore(SubSeq(s, IndexOf(s, "_") + 1, Len(s)))

\* fromstring: exactly three parts (ValueError otherwise), then
\* cls(user, int(seq), int(subuser)): int() reads decimal digits.
ChangeIdFromParts(parts) ==
    IF Len(parts) # 3 THEN Raise("ValueError")
    ELSE IF ~IntParses(parts[2]) \/ ~IntParses(parts[3]) THEN Raise("ValueError")
    ELSE [t |-> "ok", c |-> ChangeId(parts[1], IntOf(parts[2]), IntOf(parts[3]))]
ChangeIdFromString(s) == ChangeIdFromParts(SplitUnderscore(s))

MaxSeq == 17        \* largest sequence number of a ChangeId
MaxSubuser == 2     \* largest subuser of a ChangeId

IdUsers == {<<"u">>, <<"u", "v">>}

\* A caller writes an identifier and reads it back.
ChangeIdRoundTrip(user, seq, subuser) ==
    /\ ~halted
    /\ \E r \in {ChangeIdFromString(ChangeIdToString(ChangeId(user, seq, subuser)))} :
            /\ call' = [op |-> "ChangeId.fromstring", c |-> ChangeId(user, seq, subuser),
                        text |-> ChangeIdToString(ChangeId(user, seq, subuser)),
                        result |-> r]
            /\ halted' = (r.t # "ok")
    /\ UNCHANGED <<store, tips, doc, loaderVars>>

NextChangeId ==
    \E user \in IdUsers, seq \in 0..MaxSeq, subuser \in 0..MaxSubuser :
        ChangeIdRoundTrip(user, seq, subuser)

SpecChangeId == Init /\ [][NextChangeId]_vars

\* C23: ChangeId round trip: for a user without "_", a sequence >= 0 and a
\* subuser >= 0, fromstring(c.tostring()) has the user, the sequence and the
\* subuser of c.  tostring writes the sequence with %x and fromstring reads
\* it with int(), base ten, so from sequence 10 on the text is rejected or
\* read as another number.
C23_ChangeIdRoundTrip ==
    call.op = "ChangeId.fromstring" =>
        /\ call.result.t = "ok"
        /\ call.result.c = call.c

-----------------------------------------------------------------------------
(* Malformed specification texts *)

\* The malformed texts C24 lists: no ":" at all, chars offsets that are not
\* two integers, a pattern that does not compile.
MalformedTargets ==
    { S_END,
      S_chars \o Colon \o <<"a", ":", "b">>,
      S_chars \o Colon \o <<"2">>,
      S_match \o Colon \o Quoted(<<"(">>) }
MalformedSources == { S_text, S_copy }

\* C24: a malformed edit is a reported, recoverable failure: apply on a
\* document returns None and does not raise when the target is malformed,
\* or the target resolves and the source has no ":".  The code catches
\* KeyError only; these texts raise ValueError or re.error, which leave
\* apply.
C24_MalformedIsNone ==
    (/\ call.op = "apply" /\ IsStr(call.arg)
     /\ \/ call.target \in MalformedTargets
        \/ /\ TargetRange(call).t = "ok"
           /\ call.source \in MalformedSources)
    => (call.result = None /\ ~halted)

-----------------------------------------------------------------------------
(* Parent closure *)

\* C25: parent closure: in every store reached through addChangeEvent, id
\* reuse included, the baseId of every stored record is the root sentinel
\* or a key of the store, so getPathToChangeId of a stored id never takes
\* its except branch.
C25_ParentClosure ==
    \A cid \in DOMAIN store :
        /\ RootOrStored(store[cid].baseId)
        /\ getPathToChangeId(store, cid).t \notin {"AttributeError", "KeyError"}

\* A store in which ids were reused until every record has a stored parent.
C25_Witness ==
    /\ DOMAIN store = {"1", "2", "3"}
    /\ store["1"].baseId = "3" /\ store["2"].baseId = "1" /\ store["3"].baseId = "2"
    /\ Added(call) /\ call.known

-----------------------------------------------------------------------------
(* The match: target *)

\* The words the model's match: targets look for, as quoted or bare text.
MatchWords == {<<"a">>, <<"b">>, <<"a", "b">>, <<"b", "a">>}
MatchTexts(w) == {S_match \o Colon \o Quoted(w), S_match \o Colon \o w}

\* The 0-based place of the first occurrence of w in d.
FirstAt(d, w) ==
    MinOf({i \in 0..(Len(d) - Len(w)) : SubSeq(d, i + 1, i + Len(w)) = w})

\* C26: match target: "match:regex" resolves to the span of the leftmost
\* match of the unquoted regex in the document, apply replaces that
\* occurrence only, and with no match in the document the resolution fails
\* (KeyError, so apply returns None).
C26_MatchFirst ==
    (call.op = "apply" /\ IsStr(call.arg)) =>
        \A w \in MatchWords :
            call.target \in MatchTexts(w) =>
                IF Occurs(w, call.arg.v)
                THEN /\ TargetRange(call)
                            = Bounds(FirstAt(call.arg.v, w), FirstAt(call.arg.v, w) + Len(w))
                     /\ IsStr(getSource(call.arg, call.source))
                            => call.result = Str(ReplaceFirst(call.arg.v, w,
                                                    getSource(call.arg, call.source).v))
                ELSE TargetRange(call).t = "KeyError" /\ call.result = None

\* The first "a" of "aba" becomes "ba", the second stays.
C26_Witness ==
    /\ call.op = "apply" /\ call.arg = Str(<<"a", "b", "a">>)
    /\ call.target = S_match \o Colon \o Quoted(<<"a">>)
    /\ call.source = S_text \o Colon \o Quoted(<<"b", "a">>)
    /\ call.result = Str(<<"b", "a", "b", "a">>)

-----------------------------------------------------------------------------
(* The text: source *)

\* The text after "text:" of a source, <<>> when there is no single colon.
TextRest(src) ==
    IF Len(SplitColon(src)) = 2 /\ SplitColon(src)[1] = S_text
    THEN SplitColon(src)[2] ELSE <<>>

\* The other order: the outer quote pair comes off first, then the escapes
\* are expanded.
StripThenUnescape(rest) == unescapeString(unquoteString(rest))

\* C27: text source: the literal after "text:" loses one outer quote pair
\* first and has its escapes expanded afterwards, so wherever both orders
\* yield a text the result of getSource is the strip-then-unescape text,
\* literals whose escapes produce quote characters at the ends included.
C27_StripThenUnescape ==
    (/\ call.op = "apply" /\ IsStr(call.arg)
     /\ call.source \in TextSources
     /\ IsStr(getSource(call.arg, call.source))
     /\ IsStr(StripThenUnescape(TextRest(call.source))))
    => getSource(call.arg, call.source) = StripThenUnescape(TextRest(call.source))

-----------------------------------------------------------------------------
(* Version stability *)

\* C28: version stability: once an id is stored, an insertion of a record
\* with a fresh id leaves the path getPathToChangeId gives for that id, and
\* the text getDocAsOfChangeId gives for it, as they were.
C28_VersionStability ==
    [][ (/\ Added(call') /\ call'.result = "stored"
         /\ call'.ce.changeId \notin DOMAIN store
         /\ store' # store)
        => \A cid \in DOMAIN store :
              /\ getPathToChangeId(store', cid) = getPathToChangeId(store, cid)
              /\ getDocAsOfChangeId(store', cid) = getDocAsOfChangeId(store, cid)
      ]_vars

\* A fresh record was stored on top of a version whose text is not empty.
C28_Witness ==
    /\ Added(call) /\ call.result = "stored" /\ ~call.known
    /\ call.ce.baseId \in DOMAIN store
    /\ store[call.ce.baseId].baseId \in DOMAIN store
    /\ getPathToChangeId(store, call.ce.baseId).t = "ok"
    /\ getDocAsOfChangeId(store, call.ce.baseId) = Str(<<"b">>)

-----------------------------------------------------------------------------
(* The operations that only read *)

\* Two change logs: one with a "#META" line and two changes, one with a
\* change whose target does not resolve.
ReadFiles ==
    { <<MetaLine(<<"i", "d">>, <<"x">>), ChangeLine("", "1", AppendEdit),
        ChangeLine("1", "2", AppendEdit)>>,
      <<ChangeLine("", "1", [target |-> S_xptr \o Colon,
                             source |-> AppendEdit.source])>> }

\* r = self[cid].apply(d), on a record of the store.
ApplyStored(cid, d) ==
    /\ ~halted
    /\ \E r \in {apply(store[cid], Str(d))} :
            /\ call' = [op |-> "apply", target |-> store[cid].target,
                        source |-> store[cid].source, arg |-> Str(d), result |-> r]
            /\ halted' = IsRaise(r)
    /\ UNCHANGED <<store, tips, doc, loaderVars>>

NextReads ==
    \/ \E cfile \in ReadFiles : LoadFromPlain(cfile)
    \/ \E baseId \in {"", "1", "2"}, changeId \in {"2", "3"}, e \in Edits :
            AddChangeEvent(baseId, changeId, e)
    \/ FindAllTipVersions
    \/ \E cid \in DOMAIN store : GetPathToChangeId(cid)
    \/ \E cid \in DOMAIN store : GetDocAsOfChangeId(cid)
    \/ GetNewChanges
    \/ \E cid \in DOMAIN store, d \in {<<>>, <<"a">>} : ApplyStored(cid, d)

SpecReads == Init /\ [][NextReads]_vars

ReadOps == {"findAllTipVersions", "getPathToChangeId", "getDocAsOfChangeId",
            "getNewChanges", "apply"}

\* C29: reads are side-effect free: a call of findAllTipVersions,
\* getPathToChangeId, getDocAsOfChangeId (with path2Document), getNewChanges
\* or apply leaves the store with every field of every record, the tips and
\* the meta information as they were.
C29_ReadsSideEffectFree ==
    [][ call'.op \in ReadOps => UNCHANGED <<store, tips, meta>> ]_vars

\* A read of a store that holds loaded and new records, with meta filled.
C29_Witness ==
    /\ call.op = "getNewChanges" /\ call.result # <<>>
    /\ meta # <<>>
    /\ \E cid \in DOMAIN store : store[cid].loaded
    /\ tips # {}

-----------------------------------------------------------------------------
(* A replay in steps, with insertions by a second caller in between *)

ReplayIds == {"1", "2", "3", "4"}

Replaying(c) == c.op = "replay"

\* getDocAsOfChangeId(cid) entered: thePath = [], cur = self[cid].  "start"
\* keeps the store as it was at that moment; "fresh" says that every
\* insertion made since used an id that was no key of the store.
StartReplay(cid) ==
    /\ ~halted
    /\ ~Replaying(call)
    /\ call' = [op |-> "replay", cid |-> cid, start |-> store, phase |-> "path",
                cur |-> store[cid], thePath |-> <<>>, i |-> 1, fresh |-> TRUE,
                addedInPath |-> FALSE, addedInApply |-> FALSE, result |-> None]
    /\ UNCHANGED <<store, tips, halted, doc, loaderVars>>

\* One turn of the while loop of getPathToChangeId: cur is prepended, then
\* either the loop ends (the path goes to path2Document, which sets doc = "")
\* or cur = self[cur.baseId] is read from the store as it is now.  A walk
\* that is on a cycle never ends; the model stops it when the path is longer
\* than any chain of distinct ids.
PathStep ==
    /\ ~halted
    /\ Replaying(call) /\ call.phase = "path"
    /\ Len(call.thePath) <= Cardinality(ReplayIds)
    /\ LET path1 == <<call.cur>> \o call.thePath
       IN  IF call.cur.baseId = NULL_CHANGE_ID
           THEN /\ call' = [call EXCEPT !.thePath = path1, !.phase = "apply"]
                /\ doc' = Str(<<>>)
                /\ UNCHANGED halted
           ELSE IF call.cur.baseId \notin DOMAIN store
           THEN /\ call' = [call EXCEPT !.thePath = path1, !.phase = "done",
                                        !.result = Raise("AttributeError")]
                /\ halted' = TRUE
                /\ UNCHANGED doc
           ELSE /\ call' = [call EXCEPT !.thePath = path1,
                                        !.cur = store[call.cur.baseId]]
                /\ UNCHANGED <<halted, doc>>
    /\ UNCHANGED <<store, tips, loaderVars>>

\* One turn of the for loop of path2Document: doc = chg.apply(doc), on the
\* records the path holds; after the last one doc is returned.
ApplyStep ==
    /\ ~halted
    /\ Replaying(call) /\ call.phase = "apply"
    /\ IF call.i > Len(call.thePath)
       THEN /\ call' = [call EXCEPT !.phase = "done", !.result = doc]
            /\ UNCHANGED <<doc, halted>>
       ELSE \E r \in {apply(call.thePath[call.i], doc)} :
                IF IsRaise(r)
                THEN /\ call' = [call EXCEPT !.phase = "done", !.result = r]
                     /\ halted' = TRUE
                     /\ UNCHANGED doc
                ELSE /\ call' = [call EXCEPT !.i = @ + 1]
                     /\ doc' = r
                     /\ UNCHANGED halted
    /\ UNCHANGED <<store, tips, loaderVars>>

\* A variant of the second caller's insertion that edits in place: the base
\* record takes the new record's edit as well.
AddDuringReplay_editsBase(baseId, changeId, e) ==
    /\ ~halted
    /\ Replaying(call) /\ call.phase \in {"path", "apply"}
    /\ ~(IF call.phase = "path" THEN call.addedInPath ELSE call.addedInApply)
    /\ \E ce \in {ChangeEvent(baseId, changeId, e.target, e.source)} :
        IF ~(ce.baseId \in DOMAIN store \/ ce.baseId = NULL_CHANGE_ID)
        THEN /\ halted' = TRUE
             /\ UNCHANGED <<store, tips, call>>
        ELSE /\ store' = Put([k \in DOMAIN store |->
                                IF k = ce.baseId
                                THEN [store[k] EXCEPT !.target = ce.target,
                                                      !.source = ce.source]
                                ELSE store[k]], ce)
             /\ tips' = (tips \ {ce.baseId}) \cup {ce.changeId}
             /\ call' = [call EXCEPT
                            !.fresh = @ /\ ce.changeId \notin DOMAIN store,
                            !.addedInPath = @ \/ call.phase = "path",
                            !.addedInApply = @ \/ call.phase = "apply"]
             /\ UNCHANGED halted
    /\ UNCHANGED <<doc, loaderVars>>

\* addChangeEvent called by a second caller between two steps of the replay:
\* the same test and the same two writes as addChangeEvent; the replay's
\* record notes when the insertion came and whether its id was fresh.
AddDuringReplay(baseId, changeId, e) ==
    /\ ~halted
    /\ Replaying(call) /\ call.phase \in {"path", "apply"}
    /\ ~(IF call.phase = "path" THEN call.addedInPath ELSE call.addedInApply)
    /\ \E ce \in {ChangeEvent(baseId, changeId, e.target, e.source)} :
        IF ~(ce.baseId \in DOMAIN store \/ ce.baseId = NULL_CHANGE_ID)
        THEN /\ halted' = TRUE
             /\ UNCHANGED <<store, tips, call>>
        ELSE /\ store' = Put(store, ce)
             /\ tips' = (tips \ {ce.baseId}) \cup {ce.changeId}
             /\ call' = [call EXCEPT
                            !.fresh = @ /\ ce.changeId \notin DOMAIN store,
                            !.addedInPath = @ \/ call.phase = "path",
                            !.addedInApply = @ \/ call.phase = "apply"]
             /\ UNCHANGED halted
    /\ UNCHANGED <<doc, loaderVars>>

\* The store is built with ids "1" and "2"; then one replay runs, and the
\* second caller inserts once while the path is collected and once while it
\* is applied, with a stored or a fresh id.
NextReplay ==
    \/ \E baseId \in {"", "1"}, changeId \in {"1", "2"}, e \in Edits :
            ~Replaying(call) /\ AddChangeEvent(baseId, changeId, e)
    \/ \E cid \in DOMAIN store : StartReplay(cid)
    \/ PathStep
    \/ ApplyStep
    \/ \E baseId \in {"1", "2"}, changeId \in ReplayIds,
          e \in {x \in Edits : x.target # S_xptr \o Colon} :
            AddDuringReplay(baseId, changeId, e)

SpecReplay == Init /\ [][NextReplay]_vars

\* C30: concurrency: when addChangeEvent calls with fresh ids come between
\* the backward steps of getPathToChangeId and the forward apply steps, the
\* replay ends with the path and the text that the replay in one piece gives
\* on the store as it was when the replay started.
C30_InterleavedReplay ==
    (Replaying(call) /\ call.fresh) =>
        /\ call.phase \in {"apply", "done"} /\ call.result.t # "AttributeError"
            => /\ getPathToChangeId(call.start, call.cid).t = "ok"
               /\ call.thePath = getPathToChangeId(call.start, call.cid).path
        /\ call.phase = "done"
            => call.result = getDocAsOfChangeId(call.start, call.cid)

\* A replay of a two-record chain that ended with its text, with a fresh
\* insertion during the walk back and another during the applies.
C30_Witness ==
    /\ Replaying(call) /\ call.phase = "done" /\ call.fresh
    /\ call.addedInPath /\ call.addedInApply
    /\ Len(call.thePath) = 2
    /\ IsStr(call.result) /\ call.result.v # <<>>
    /\ DOMAIN store = ReplayIds

=============================================================================
